---- MODULE Spec2Model ----
(***************************************************************************)
(* Model of qutebrowser/commands/utils.py: the global command dictionary   *)
(* cmd_dict and the register decorator, with its arity inference           *)
(* register._get_nargs_count.                                              *)
(*                                                                         *)
(* Python values are tagged records (None, PyInt, PyTuple, PyList, PyStr); *)
(* the text of a string is a sequence of one-character strings, so that    *)
(* lower(), splitlines(), strip() and rstrip() are computed character by   *)
(* character.  The variables heap, last and log record what the calls did: *)
(* the Command objects built, the latest call and its exception, and the   *)
(* names of every successful registration.                                 *)
(***************************************************************************)
EXTENDS Integers, Sequences, FiniteSets, TLC

VARIABLES cmd_dict, heap, dec, last, log, ain, aout

vars == <<cmd_dict, heap, dec, last, log, ain, aout>>

----------------------------------------------------------------------------
(* Bounds of the model *)

\* largest number of named parameters of a handler given to the resolver
MaxParams == 3
\* largest integer used in an explicit nargs
MaxN == 2
\* longest explicit nargs tuple
MaxNargsLen == 3
\* largest number of Command objects built in one run
MaxRegs == 2
\* longest list of names given to register
MaxNames == 2
\* longest documentation string of a handler
MaxDocLen == 2

----------------------------------------------------------------------------
(* Python values *)

None == [type |-> "NoneType"]
PyInt(n) == [type |-> "int", val |-> n]
PyTuple(xs) == [type |-> "tuple", items |-> xs]
PyList(xs) == [type |-> "list", items |-> xs]
PyStr(s) == [type |-> "str", val |-> s]

IsNone(v) == v.type = "NoneType"

\* isinstance(v, collections.Iterable) for the values of the model
IsIterable(v) == v.type \in {"tuple", "list", "str"}

\* the elements an iterable yields when it is unpacked
IterItems(v) == IF v.type = "str" THEN [i \in DOMAIN v.val |-> PyStr(<<v.val[i]>>)]
                ELSE v.items

\* x in xs, for a Python list xs
Contains(xs, x) == \E i \in DOMAIN xs : xs[i] = x

\* int(b) for a bool b
BoolToInt(b) == IF b THEN 1 ELSE 0

----------------------------------------------------------------------------
(* Handlers and inspect.getfullargspec *)

\* names a parameter of a handler can have
ParamNames == {"self", "count", "a", "b"}

RECURSIVE SeqsUpTo(_, _)
\* all sequences over S of length at most n
SeqsUpTo(S, n) ==
    IF n = 0 THEN {<<>>}
    ELSE LET shorter == SeqsUpTo(S, n - 1)
         IN shorter \cup {Append(s, x) : s \in {t \in shorter : Len(t) = n - 1}, x \in S}

Distinct(s) == \A i, j \in DOMAIN s : i # j => s[i] # s[j]

\* A declared parameter list: distinct names, and (Python's syntax) the
\* parameters with a default form a trailing run: the last nd parameters.
ParamLists(n) ==
    { [i \in DOMAIN names |-> [name |-> names[i], hasdefault |-> i > Len(names) - nd]] :
        <<names, nd>> \in { <<s, d>> \in SeqsUpTo(ParamNames, n) \X (0 .. n) :
                             Distinct(s) /\ d <= Len(s) } }

\* the default value written for a parameter (count=1, everything else =None)
DefaultOf(p) == IF p.name = "count" THEN PyInt(1) ELSE None

RECURSIVE DefaultValues(_)
\* the default values of the parameters that carry one, in order
DefaultValues(params) ==
    IF params = <<>> THEN <<>>
    ELSE IF Head(params).hasdefault
         THEN <<DefaultOf(Head(params))>> \o DefaultValues(Tail(params))
         ELSE DefaultValues(Tail(params))

\* inspect.getfullargspec(func): the fields _get_nargs_count reads
getfullargspec(func) ==
    [ args     |-> [i \in DOMAIN func.params |-> func.params[i].name],
      defaults |-> IF DefaultValues(func.params) = <<>> THEN None
                   ELSE PyTuple(DefaultValues(func.params)),
      varargs  |-> func.varargs ]

----------------------------------------------------------------------------
(* register._get_nargs_count *)

\* The result (count, (minargs, maxargs)), or the exception raised.
Returned(count, minargs, maxargs) ==
    [exc |-> "none", count |-> count, minargs |-> minargs, maxargs |-> maxargs]
Raised(e) == [exc |-> e]

\* "if self.nargs:" in place of "if self.nargs is not None:": 0 and () count
\* as no override
NargsGiven_truthy(self_nargs) ==
    /\ ~IsNone(self_nargs)
    /\ self_nargs # PyInt(0)
    /\ ~(IsIterable(self_nargs) /\ IterItems(self_nargs) = <<>>)

\* self.nargs is not None
NargsGiven(self_nargs) == ~IsNone(self_nargs)

\* the override branch: a tuple is unpacked into two names, an int is doubled
ExplicitNargs(self_nargs, count) ==
    IF IsIterable(self_nargs)
    THEN IF Len(IterItems(self_nargs)) # 2
         THEN Raised("ValueError")
         ELSE Returned(count, IterItems(self_nargs)[1], IterItems(self_nargs)[2])
    ELSE Returned(count, self_nargs, self_nargs)

\* the count parameter is left among the positional slots
DerivedNargs_keepcount(spec, count) ==
    LET defaultcount == IF ~IsNone(spec.defaults) THEN Len(spec.defaults.items) ELSE 0
        argcount == Len(spec.args) - (IF Contains(spec.args, "self") THEN 1 ELSE 0)
    IN  Returned(count, PyInt(argcount - defaultcount),
                 IF ~IsNone(spec.varargs) THEN None ELSE PyInt(argcount))

\* the count parameter is taken off minargs a second time
DerivedNargs_doublecount(spec, count) ==
    LET defaultcount == IF ~IsNone(spec.defaults) THEN Len(spec.defaults.items) ELSE 0
        argcount == Len(spec.args) - (IF Contains(spec.args, "self") THEN 1 ELSE 0)
    IN  Returned(count, PyInt(argcount - defaultcount - BoolToInt(count)),
                 IF ~IsNone(spec.varargs) THEN None
                 ELSE PyInt(argcount - BoolToInt(count)))

\* the branch without override: the arity is read off the signature
DerivedNargs(spec, count) ==
    LET defaultcount == IF ~IsNone(spec.defaults) THEN Len(spec.defaults.items) ELSE 0
        argcount == Len(spec.args) - (IF Contains(spec.args, "self") THEN 1 ELSE 0)
        minargs  == argcount - defaultcount
        maxargs  == IF ~IsNone(spec.varargs) THEN None
                    ELSE PyInt(argcount - BoolToInt(count))
    IN  Returned(count, PyInt(minargs), maxargs)

_get_nargs_count(self_nargs, func) ==
    LET spec  == getfullargspec(func)
        count == Contains(spec.args, "count")
    IN  IF NargsGiven(self_nargs)
        THEN ExplicitNargs(self_nargs, count)
        ELSE DerivedNargs(spec, count)

----------------------------------------------------------------------------
(* Python string methods, on sequences of characters *)

\* str.lower() on one character
LowerChar(c) == CASE c = "Q" -> "q" [] c = "U" -> "u" [] OTHER -> c

\* str.lower()
lower(s) == [i \in DOMAIN s |-> LowerChar(s[i])]

IsSpace(c) == c \in {" ", "\n"}

RECURSIVE splitlines(_)
\* str.splitlines(): the lines without their line breaks; none for ""
splitlines(s) ==
    IF s = <<>> THEN <<>>
    ELSE IF \E i \in DOMAIN s : s[i] = "\n"
         THEN LET i == CHOOSE k \in DOMAIN s :
                          s[k] = "\n" /\ \A j \in 1 .. (k - 1) : s[j] # "\n"
              IN  <<SubSeq(s, 1, i - 1)>> \o splitlines(SubSeq(s, i + 1, Len(s)))
         ELSE <<s>>

RECURSIVE lstrip(_)
lstrip(s) == IF s # <<>> /\ IsSpace(Head(s)) THEN lstrip(Tail(s)) ELSE s

RECURSIVE rstrip(_, _)
\* str.rstrip(chars): every trailing character that is in chars is removed
rstrip(s, chars) ==
    IF s # <<>> /\ s[Len(s)] \in chars THEN rstrip(SubSeq(s, 1, Len(s) - 1), chars) ELSE s

\* str.strip()
strip(s) == rstrip(lstrip(s), {" ", "\n"})

----------------------------------------------------------------------------
(* register.__init__ *)

\* no decorator object under construction
NoDec == [type |-> "NoneType"]

\* the attributes __init__ saves
DecoratorOf(opts) ==
    [ type |-> "register", name |-> opts.name, maxsplit |-> opts.maxsplit,
      hide |-> opts.hide, nargs |-> opts.nargs, instance |-> opts.instance,
      completion |-> opts.completion, modes |-> opts.modes,
      not_modes |-> opts.not_modes ]

\* "or" in place of "and": one of the two options is already refused
BothModes_either(opts) == ~IsNone(opts.modes) \/ ~IsNone(opts.not_modes)

\* modes is not None and not_modes is not None
BothModes(opts) == ~IsNone(opts.modes) /\ ~IsNone(opts.not_modes)

\* decorators are built while fewer than MaxRegs commands exist
RegisterInit(opts) ==
    /\ Len(heap) < MaxRegs
    /\ dec = NoDec
    /\ IF BothModes(opts)
       THEN /\ dec' = NoDec
            /\ last' = [op |-> "init", exc |-> "ValueError", opts |-> opts]
       ELSE /\ dec' = DecoratorOf(opts)
            /\ last' = [op |-> "init", exc |-> "none", opts |-> opts]
    /\ UNCHANGED <<cmd_dict, heap, log, ain, aout>>

----------------------------------------------------------------------------
(* register.__call__ *)

\* Command(name=..., ...): a Command is represented by the keyword arguments
\* __call__ constructs it with (the class is defined in _command.py)
Command(mainname, self, nargs, count, desc, func) ==
    [ name |-> mainname, maxsplit |-> self.maxsplit, hide |-> self.hide,
      nargs |-> nargs, count |-> count, desc |-> desc, instance |-> self.instance,
      handler |-> func, completion |-> self.completion, modes |-> self.modes,
      not_modes |-> self.not_modes ]

\* name = func.__name__.lower() if self.name is None else self.name
NameOf(self, func) == IF IsNone(self.name) THEN PyStr(lower(func.name)) ELSE self.name

\* the list names, or the IndexError of name[0] on an empty list
NamesOf(self, func) ==
    LET name == NameOf(self, func)
    IN  IF name.type = "str" THEN [exc |-> "none", mainname |-> name, names |-> <<name>>]
        ELSE IF name.items = <<>> THEN [exc |-> "IndexError"]
        ELSE [exc |-> "none", mainname |-> name.items[1], names |-> name.items]

\* desc, or the IndexError of splitlines()[0] on a documentation without lines
DescOf(func) ==
    IF ~IsNone(func.doc)
    THEN IF splitlines(func.doc.val) = <<>> THEN [exc |-> "IndexError"]
         ELSE [exc |-> "none", desc |-> PyStr(rstrip(strip(splitlines(func.doc.val)[1]), {"."}))]
    ELSE [exc |-> "none", desc |-> PyStr(<<>>)]

\* "return func" inside the loop: only the first name is stored
SetAll_first(d, names, cmd) ==
    IF names = <<>> THEN d
    ELSE [n \in DOMAIN d \cup {Head(names)} |-> IF n = Head(names) THEN cmd ELSE d[n]]

RECURSIVE SetAll_keepold(_, _, _)
\* "cmd_dict.setdefault(name, cmd)": a name already registered keeps its command
SetAll_keepold(d, names, cmd) ==
    IF names = <<>> THEN d
    ELSE SetAll_keepold([n \in DOMAIN d \cup {Head(names)} |->
                            IF n \in DOMAIN d THEN d[n] ELSE cmd], Tail(names), cmd)

RECURSIVE SetAll(_, _, _)
\* for name in names: cmd_dict[name] = cmd
SetAll(d, names, cmd) ==
    IF names = <<>> THEN d
    ELSE SetAll([n \in DOMAIN d \cup {Head(names)} |->
                    IF n = Head(names) THEN cmd ELSE d[n]], Tail(names), cmd)

\* What __call__ does with decorator self on func: the exception it raises,
\* or the Command it builds and the names it stores it under.
CallOutcome(self, func) ==
    LET nm == NamesOf(self, func)
        na == _get_nargs_count(self.nargs, func)
        ds == DescOf(func)
    IN  IF nm.exc # "none" THEN [exc |-> nm.exc]
        ELSE IF na.exc # "none" THEN [exc |-> na.exc]
        ELSE IF ds.exc # "none" THEN [exc |-> ds.exc]
        ELSE [ exc |-> "none", names |-> nm.names,
               cmd |-> Command(nm.mainname, self, <<na.minargs, na.maxargs>>, na.count,
                               ds.desc, func) ]

\* heap holds the Command objects in the order they were built; a Command is
\* referred to by its index.  log (history) keeps, for each of them, the names
\* it was registered under.
RegisterCall(func) ==
    /\ dec # NoDec
    /\ LET out == CallOutcome(dec, func)
       IN  IF out.exc # "none"
           THEN /\ UNCHANGED <<cmd_dict, heap, log>>
                /\ last' = [op |-> "call", exc |-> out.exc, self |-> dec, func |-> func]
           ELSE /\ heap' = Append(heap, out.cmd)
                /\ cmd_dict' = SetAll(cmd_dict, out.names, Len(heap) + 1)
                /\ log' = Append(log, out.names)
                /\ last' = [op |-> "call", exc |-> "none", self |-> dec, func |-> func]
    /\ dec' = NoDec
    /\ UNCHANGED <<ain, aout>>

----------------------------------------------------------------------------
(* Inputs *)

\* a handler: its __name__, its __doc__, its named parameters and its *args
Handler(name, doc, params, varargs) ==
    [name |-> name, doc |-> doc, params |-> params, varargs |-> varargs]

\* the defaults of register.__init__
DefaultOpts ==
    [ instance |-> None, name |-> None, nargs |-> None, maxsplit |-> -1,
      hide |-> FALSE, completion |-> None, modes |-> None, not_modes |-> None ]

\* the values an element of an explicit nargs takes: 0 .. n and None
NargsItems(n) == {PyInt(i) : i \in 0 .. n} \cup {None}

\* explicit nargs: absent, a single int, a tuple of any length, or one of the
\* old one-character formats ("?", "+", "*") passed as it is
NargsValues(n) ==
    {None} \cup {PyInt(i) : i \in 0 .. n}
           \cup {PyTuple(t) : t \in SeqsUpTo(NargsItems(n), MaxNargsLen)}
           \cup {PyStr(<<c>>) : c \in {"?", "+", "*"}}

\* the handlers whose signature the resolver is run on
SigHandlers ==
    { Handler(<<"f">>, None, ps, va) :
        ps \in ParamLists(MaxParams), va \in {None, PyStr(<<"r">>)} }

\* command names given to register, and names of handlers
NameStrs == {<<"q">>, <<"u">>, <<"q", "u">>}
FuncNames == {<<"Q">>, <<"q", "U">>}

NameValues ==
    {None} \cup {PyStr(n) : n \in NameStrs}
           \cup {PyList(l) : l \in SeqsUpTo({PyStr(n) : n \in NameStrs}, MaxNames)}

NameOptions == {[DefaultOpts EXCEPT !.name = n] : n \in NameValues}
NameHandlers == {Handler(n, None, <<>>, None) : n \in FuncNames}

NargsOptions ==
    {[DefaultOpts EXCEPT !.name = PyStr(<<"q">>), !.nargs = na] : na \in NargsValues(1)}
NargsHandlers ==
    { Handler(<<"Q">>, None, <<[name |-> "a", hasdefault |-> FALSE]>>, None) }

SomeModes == PyList(<<PyStr(<<"n">>)>>)
ModeOptions ==
    { [DefaultOpts EXCEPT !.name = n, !.modes = m, !.not_modes = nm, !.hide = h,
                          !.maxsplit = ms, !.nargs = na] :
        n \in {None, PyStr(<<"q">>)}, m \in {None, SomeModes}, nm \in {None, SomeModes},
        h \in BOOLEAN, ms \in {-1, 0}, na \in {None, PyTuple(<<PyInt(0), None>>)} }
ModeHandlers == { Handler(<<"Q">>, None, <<>>, None) }

DocChars == {"a", " ", ".", "\n"}
DocValues == {None} \cup {PyStr(d) : d \in SeqsUpTo(DocChars, MaxDocLen)}
DocOptions ==
    { [DefaultOpts EXCEPT !.name = PyList(<<PyStr(<<"q">>), PyStr(<<"q", "u">>)>>), !.hide = h] :
        h \in BOOLEAN }
DocHandlers == { Handler(<<"Q">>, d, <<>>, None) : d \in DocValues }

----------------------------------------------------------------------------
(* The resolver on its own: the inputs are drawn, then it is applied *)

NoInput == [type |-> "NoneType"]
Pending == [exc |-> "pending"]

EmptyRegistry ==
    /\ cmd_dict = [n \in {} |-> 0]
    /\ heap = <<>>
    /\ log = <<>>
    /\ dec = NoDec
    /\ last = [op |-> "start"]

InitArity ==
    /\ EmptyRegistry
    /\ ain \in {[nargs |-> na, func |-> f] : na \in NargsValues(MaxN), f \in SigHandlers}
    /\ aout = Pending

Resolve ==
    /\ aout = Pending
    /\ aout' = _get_nargs_count(ain.nargs, ain.func)
    /\ UNCHANGED <<cmd_dict, heap, dec, last, log, ain>>

NextArity == Resolve

SpecArity == InitArity /\ [][NextArity]_vars

----------------------------------------------------------------------------
(* The registry *)

Init ==
    /\ EmptyRegistry
    /\ ain = NoInput
    /\ aout = Pending

Next ==
    \/ \E opts \in NameOptions : RegisterInit(opts)
    \/ \E func \in NameHandlers : RegisterCall(func)

Spec == Init /\ [][Next]_vars

NextNargs ==
    \/ \E opts \in NargsOptions : RegisterInit(opts)
    \/ \E func \in NargsHandlers : RegisterCall(func)

SpecNargs == Init /\ [][NextNargs]_vars

NextModes ==
    \/ \E opts \in ModeOptions : RegisterInit(opts)
    \/ \E func \in ModeHandlers : RegisterCall(func)

SpecModes == Init /\ [][NextModes]_vars

NextDoc ==
    \/ \E opts \in DocOptions : RegisterInit(opts)
    \/ \E func \in DocHandlers : RegisterCall(func)

SpecDoc == Init /\ [][NextDoc]_vars

----------------------------------------------------------------------------
(* Claims about the resolver (SpecArity) *)

Resolved == aout # Pending
Params == ain.func.params
HasParam(f, nm) == \E i \in DOMAIN f.params : f.params[i].name = nm
\* D: the number of parameters carrying a default
NumDefaults(f) == Cardinality({i \in DOMAIN f.params : f.params[i].hasdefault})
\* the first parameter is the receiver
ReceiverFirst(f) == f.params # <<>> /\ f.params[1].name = "self"
\* P: the declared parameters without a receiver first parameter
NumParams(f) == Len(f.params) - (IF ReceiverFirst(f) THEN 1 ELSE 0)
CountHasDefault(f) ==
    \E i \in DOMAIN f.params : f.params[i].name = "count" /\ f.params[i].hasdefault
NotCount(p) == p.name # "count"
\* the same handler with the count parameter, and its default, removed
WithoutCount(f) == [f EXCEPT !.params = SelectSeq(f.params, NotCount)]

\* C1 (as stated): a handler without count and without *args, registered
\* without nargs, has minArgs = P - D and maxArgs = P, where P leaves out a
\* receiver first parameter and D counts the defaults.
C1_Original ==
    (Resolved /\ IsNone(ain.nargs) /\ ~HasParam(ain.func, "count")
              /\ IsNone(ain.func.varargs))
    => /\ aout.exc = "none"
       /\ aout.minargs = PyInt(NumParams(ain.func) - NumDefaults(ain.func))
       /\ aout.maxargs = PyInt(NumParams(ain.func))

\* C2: with a count parameter that carries a default and no nargs, the
\* resolver reports count support, and minArgs and maxArgs are those of the
\* same handler without the count parameter, with or without *args.
C2_CountTransparent ==
    (Resolved /\ IsNone(ain.nargs) /\ CountHasDefault(ain.func))
    => /\ aout.exc = "none"
       /\ aout.count = TRUE
       /\ LET other == _get_nargs_count(None, WithoutCount(ain.func))
          IN  /\ other.exc = "none"
              /\ aout.minargs = other.minargs
              /\ aout.maxargs = other.maxargs

C2_Witness ==
    /\ Resolved /\ IsNone(ain.nargs) /\ CountHasDefault(ain.func)
    /\ ~IsNone(ain.func.varargs)
    /\ Len(Params) = 3 /\ ReceiverFirst(ain.func) /\ NumDefaults(ain.func) = 1
    /\ aout.minargs = PyInt(1) /\ aout.maxargs = None

\* C3: an explicit nargs decides minArgs and maxArgs whatever the signature:
\* an int N gives (N, N), a pair is returned as it is (None for unbounded
\* included); count support still says whether a parameter is named count.
C3_ExplicitNargs ==
    (Resolved /\ ~IsNone(ain.nargs))
    => /\ ain.nargs.type = "int"
          => /\ aout.exc = "none"
             /\ aout.minargs = ain.nargs /\ aout.maxargs = ain.nargs
             /\ aout.count = HasParam(ain.func, "count")
       /\ (ain.nargs.type = "tuple" /\ Len(ain.nargs.items) = 2)
          => /\ aout.exc = "none"
             /\ aout.minargs = ain.nargs.items[1] /\ aout.maxargs = ain.nargs.items[2]
             /\ aout.count = HasParam(ain.func, "count")

C3_Witness ==
    /\ Resolved
    /\ ain.nargs = PyInt(0)
    /\ Len(Params) = 2 /\ HasParam(ain.func, "count") /\ NumDefaults(ain.func) = 0
    /\ aout.minargs = PyInt(0) /\ aout.maxargs = PyInt(0) /\ aout.count = TRUE

\* C9 (as stated): a handler with *args, registered without nargs, has
\* maxArgs unbounded and minArgs the number of named parameters, the receiver
\* apart, that carry no default.
C9_Original ==
    (Resolved /\ IsNone(ain.nargs) /\ ~IsNone(ain.func.varargs))
    => /\ aout.exc = "none"
       /\ aout.maxargs = None
       /\ aout.minargs =
            PyInt(Cardinality({i \in DOMAIN Params :
                      /\ ~Params[i].hasdefault
                      /\ ~(i = 1 /\ Params[i].name = "self")}))

\* the signature C10 is about: the receiver, if any, is the first parameter
\* and has no default; count, if any, has a default
WellFormed(f) ==
    /\ \A i \in DOMAIN f.params :
          f.params[i].name = "self" => (i = 1 /\ ~f.params[i].hasdefault)
    /\ HasParam(f, "count") => CountHasDefault(f)

\* C10: without nargs, a well-formed signature gets a well-formed arity:
\* 0 <= minArgs, and maxArgs is unbounded or at least minArgs.
C10_ArityWellFormed ==
    (Resolved /\ IsNone(ain.nargs) /\ WellFormed(ain.func))
    => /\ aout.exc = "none"
       /\ aout.minargs.type = "int" /\ aout.minargs.val >= 0
       /\ \/ aout.maxargs = None
          \/ aout.maxargs.type = "int" /\ aout.minargs.val <= aout.maxargs.val

C10_Witness ==
    /\ Resolved /\ IsNone(ain.nargs) /\ WellFormed(ain.func)
    /\ ReceiverFirst(ain.func) /\ Len(Params) = 2 /\ CountHasDefault(ain.func)
    /\ IsNone(ain.func.varargs)
    /\ aout.minargs = PyInt(0) /\ aout.maxargs = PyInt(0)

----------------------------------------------------------------------------
(* Claims about the registry *)

\* a step of __call__: the decorator object is applied and dropped
CallStep == dec # NoDec /\ dec' = NoDec
\* a step of __init__
InitStep == dec = NoDec /\ last'.op = "init"

Range(xs) == {xs[i] : i \in DOMAIN xs}
\* the keys whose entry a step inserts or changes
Changed == {n \in DOMAIN cmd_dict' : n \notin DOMAIN cmd_dict \/ cmd_dict'[n] # cmd_dict[n]}
RegistryUnchanged == cmd_dict' = cmd_dict /\ heap' = heap

\* an explicit nargs of the wrong shape, or with min > max
WrongShape(na) == na.type = "tuple" /\ Len(na.items) # 2
MinAboveMax(na) ==
    /\ na.type = "tuple" /\ Len(na.items) = 2
    /\ na.items[1].type = "int" /\ na.items[2].type = "int"
    /\ na.items[1].val > na.items[2].val

\* C4: a registration whose nargs is a tuple of a length other than two, or
\* a pair with min > max, fails with ValueError, builds no command and
\* leaves cmd_dict as it was.
C4_Original ==
    [][(CallStep /\ (WrongShape(dec.nargs) \/ MinAboveMax(dec.nargs)))
       => (last'.exc = "ValueError" /\ RegistryUnchanged)]_vars

\* C5: giving both modes and not_modes always fails with ValueError, whatever
\* the other options and the registry are, nothing is registered and
\* cmd_dict stays as it was; giving at most one of them never fails.
C5_ModesExclusive ==
    [][InitStep =>
        /\ RegistryUnchanged
        /\ (~IsNone(last'.opts.modes) /\ ~IsNone(last'.opts.not_modes))
           => (last'.exc = "ValueError" /\ dec' = NoDec)
        /\ (IsNone(last'.opts.modes) \/ IsNone(last'.opts.not_modes))
           => (last'.exc = "none" /\ dec' # NoDec)]_vars

C5_Witness ==
    /\ last.op = "init" /\ last.exc = "ValueError"
    /\ ~IsNone(last.opts.modes) /\ ~IsNone(last.opts.not_modes)
    /\ last.opts.hide /\ last.opts.maxsplit = 0
    /\ dec = NoDec
    /\ Len(heap) = 1 /\ DOMAIN cmd_dict # {}

\* C6: a successful registration under a list of k distinct names inserts
\* exactly k entries, one per name, all referring to one new command whose
\* name is the first of the list; without a name option it inserts one
\* entry, keyed by the lowercased name of the handler.
C6_Aliases ==
    [][(CallStep /\ last'.exc = "none") =>
        /\ Len(heap') = Len(heap) + 1
        /\ SubSeq(heap', 1, Len(heap)) = heap
        /\ (dec.name.type = "list" /\ Distinct(dec.name.items)) =>
             /\ Changed = Range(dec.name.items)
             /\ Cardinality(Changed) = Len(dec.name.items)
             /\ \A n \in Changed : cmd_dict'[n] = Len(heap')
             /\ heap'[Len(heap')].name = dec.name.items[1]
        /\ IsNone(dec.name) =>
             /\ Changed = {PyStr(lower(last'.func.name))}
             /\ \A n \in Changed : cmd_dict'[n] = Len(heap')
             /\ heap'[Len(heap')].name = PyStr(lower(last'.func.name))]_vars

C6_Witness ==
    /\ last.op = "call" /\ last.exc = "none"
    /\ last.self.name.type = "list" /\ Len(last.self.name.items) = MaxNames
    /\ Distinct(last.self.name.items)
    /\ Len(heap) = 2
    /\ \A i \in DOMAIN last.self.name.items : cmd_dict[last.self.name.items[i]] = 2
    /\ heap[2].name = last.self.name.items[1]

\* the registrations, in order, that listed the name n
Writers(n) == {i \in DOMAIN log : Contains(log[i], n)}
Latest(S) == CHOOSE i \in S : \A j \in S : j <= i
AllNames == DOMAIN cmd_dict \cup UNION {Range(log[i]) : i \in DOMAIN log}

\* cmd_dict holds, for every name, the command of the latest registration
\* that listed it, and no other name
LastWriteWins ==
    /\ DOMAIN heap = DOMAIN log
    /\ \A n \in AllNames :
          /\ n \in DOMAIN cmd_dict <=> Writers(n) # {}
          /\ Writers(n) # {} => cmd_dict[n] = Latest(Writers(n))

\* C7: from the empty registry, every name maps to the command of the most
\* recent successful registration that listed it and is present only if one
\* did; a name already registered is never an error; a register call leaves
\* the entries of the names it does not list as they were.
C7_LastWriteWins ==
    [][/\ LastWriteWins'
       /\ ~CallStep => cmd_dict' = cmd_dict
       /\ CallStep =>
            /\ (dec.name.type = "list" /\ dec.name.items = <<>>) <=> (last'.exc # "none")
            /\ last'.exc # "none" => (RegistryUnchanged /\ log' = log)
            /\ last'.exc = "none" =>
                 /\ Len(log') = Len(log) + 1
                 /\ \A n \in DOMAIN cmd_dict :
                       ~Contains(log'[Len(log')], n)
                       => (n \in DOMAIN cmd_dict' /\ cmd_dict'[n] = cmd_dict[n])]_vars

C7_Witness ==
    /\ Len(log) = 2
    /\ \E n \in DOMAIN cmd_dict :
          /\ Writers(n) = {1, 2} /\ cmd_dict[n] = 2
          /\ heap[1].name # heap[2].name
    /\ \E n \in DOMAIN cmd_dict : Writers(n) = {1} /\ cmd_dict[n] = 1

\* the description the claim gives: the first line, trimmed, without one
\* trailing period; "" for no or empty documentation
FirstLine(s) == IF splitlines(s) = <<>> THEN <<>> ELSE splitlines(s)[1]
DropOnePeriod(s) == IF s # <<>> /\ s[Len(s)] = "." THEN SubSeq(s, 1, Len(s) - 1) ELSE s
ClaimedDesc(doc) ==
    IF IsNone(doc) THEN PyStr(<<>>) ELSE PyStr(DropOnePeriod(strip(FirstLine(doc.val))))

\* C8 (as stated): the description of the command is the first line of the
\* documentation, trimmed, with one trailing period removed; with no or empty
\* documentation the registration succeeds with description "", every listed
\* name is in cmd_dict and hide is kept.
C8_Original ==
    last.op = "call"
    => /\ last.exc = "none"
       /\ heap[Len(heap)].desc = ClaimedDesc(last.func.doc)
       /\ heap[Len(heap)].hide = last.self.hide
       /\ \A i \in DOMAIN last.self.name.items :
             /\ last.self.name.items[i] \in DOMAIN cmd_dict
             /\ cmd_dict[last.self.name.items[i]] = Len(heap)

====
